---- MODULE Spec2Model ----
(***************************************************************************)
(* A model of src/main.py: the /stats endpoint of the SmartFactory IoT     *)
(* statistics service.  The model covers the memoized loader load_data,    *)
(* the key normalisation _cache_key, the lenient date parser _parse_iso    *)
(* and the request handler stats with its lock-protected response cache.   *)
(*                                                                         *)
(* Representation.                                                         *)
(*  - A Python str is a sequence of one-character strings; a date string   *)
(*    is a sequence of lexical tokens ("2024-01-01", "T", "00:00:00", "Z"). *)
(*  - Optional[x] is None == <<>> or Some(x) == <<x>>.                      *)
(*  - A UTC instant is a number of half days since 2023-12-31T00:00Z.      *)
(*  - A float is a non-negative integer number of units that has at most   *)
(*    MantissaBits significant bits; every arithmetic result is rounded to *)
(*    the nearest such number, ties to even (IEEE 754 round-to-nearest     *)
(*    with a short significand).  With 3 bits, 12 + 12 + 12 is 32 and      *)
(*    32 / 3 is 10, as (0.1 + 0.1 + 0.1) / 3 is 0.10000000000000002 with   *)
(*    53 bits.                                                             *)
(*                                                                         *)
(* Spec runs the handler on NThreads threads at once over the requests of  *)
(* Pool; SeqSpec runs one request after the other over all of Queries.     *)
(* Every source in Sources passes the column check of load_data.           *)
(* log, clock, began and computes record the run: the responses returned,  *)
(* when each request started and ended, and how often it computed.         *)
(***************************************************************************)
EXTENDS Integers, Sequences, FiniteSets, TLC

\* ------------------------------------------------------------------ bounds
\* Worker threads serving requests concurrently.
NThreads == 2
\* Requests issued in one run of the concurrent specification.
MaxRequests == 3
\* Requests issued in one run of the sequential specification.
MaxSeqRequests == 2
\* Significant bits of a float (64-bit floats have 53).
MantissaBits == 3

\* ------------------------------------------------------------------ options
None == <<>>
Some(x) == <<x>>

\* ------------------------------------------------------------------ strings
\* str.lower on one character.
Lower(c) ==
  CASE c = "A" -> "a"
    [] c = "B" -> "b"
    [] c = "H" -> "h"
    [] c = "T" -> "t"
    [] c = "Z" -> "z"
    [] OTHER -> c

LowerStr(s) == [i \in 1..Len(s) |-> Lower(s[i])]

IsSpace(c) == c = " "

RECURSIVE LStrip(_)
LStrip(s) == IF s # <<>> /\ IsSpace(Head(s)) THEN LStrip(Tail(s)) ELSE s

RECURSIVE RStrip(_)
RStrip(s) ==
  IF s # <<>> /\ IsSpace(s[Len(s)]) THEN RStrip(SubSeq(s, 1, Len(s) - 1)) ELSE s

\* str.strip
Strip(s) == RStrip(LStrip(s))

\* ------------------------------------------------------------------ floats
RECURSIVE QuantumFrom(_, _)
QuantumFrom(x, q) == IF x < q * (2 ^ MantissaBits) THEN q ELSE QuantumFrom(x, 2 * q)

\* The spacing of the floats around x >= 0.
Quantum(x) == QuantumFrom(x, 1)

\* The float nearest to the rational num / den (num >= 0, den > 0), ties to even.
FRound(num, den) ==
  LET q   == Quantum(num \div den)
      lo  == (num \div (den * q)) * q
      rem == 2 * (num - lo * den)
  IN  IF rem < den * q THEN lo
      ELSE IF rem > den * q THEN lo + q
      ELSE IF (lo \div q) % 2 = 0 THEN lo ELSE lo + q

FAdd(a, b) == FRound(a + b, 1)

FDiv(a, n) == FRound(a, n)

IsFloat(x) == x \in Nat /\ FRound(x, 1) = x

\* ------------------------------------------------------------------ dates
DayTokens == {"2024-01-01", "2024-01-02", "2024-01-03"}
TimeTokens == {"00:00:00", "12:00:00"}

DayOf(d) ==
  CASE d = "2024-01-01" -> 1
    [] d = "2024-01-02" -> 2
    [] d = "2024-01-03" -> 3

HalfOf(t) == IF t = "12:00:00" THEN 1 ELSE 0

\* pd.to_datetime(s, utc=True) on one string: Some(instant), or None when the
\* parser raises or yields NaT.  A date alone is midnight UTC of that day; the
\* designators T and Z are read in either case.
to_datetime(s) ==
  IF Len(s) = 1 /\ s[1] \in DayTokens
    THEN Some(2 * DayOf(s[1]))
  ELSE IF /\ Len(s) \in {3, 4}
          /\ s[1] \in DayTokens
          /\ s[2] \in {"T", "t", " "}
          /\ s[3] \in TimeTokens
          /\ (Len(s) = 4 => s[4] \in {"Z", "z"})
    THEN Some(2 * DayOf(s[1]) + HalfOf(s[3]))
  ELSE None

\* pd.to_numeric(cell, errors="coerce") on one cell: a decimal literal becomes
\* the nearest float, anything else NaN (None).
to_numeric(cell) == IF cell[1] = "num" THEN Some(FRound(cell[2], 1)) ELSE None

\* ------------------------------------------------------------------ loader
\* The columns load_data requires.
required == {"timestamp", "location", "sensor", "value"}

\* ParseTimestamps that keeps the rows whose timestamp did not parse, at
\* instant 0.
ParseTimestampsKeepBad(rows) ==
  [i \in 1..Len(rows) |->
     [rows[i] EXCEPT !.timestamp =
        IF to_datetime(rows[i].timestamp) # None
          THEN to_datetime(rows[i].timestamp)[1] ELSE 0]]

\* df["timestamp"] = pd.to_datetime(..., errors="coerce", utc=True), then
\* dropna(subset=["timestamp"]).
ParseTimestamps(rows) ==
  LET parsed == [i \in 1..Len(rows) |->
                   [rows[i] EXCEPT !.timestamp = to_datetime(rows[i].timestamp)]]
      Valid(r) == r.timestamp # None
      kept == SelectSeq(parsed, Valid)
  IN  [i \in 1..Len(kept) |-> [kept[i] EXCEPT !.timestamp = kept[i].timestamp[1]]]

\* The helper columns location_norm and sensor_norm.
AddNormColumns(rows) ==
  [i \in 1..Len(rows) |->
     [timestamp     |-> rows[i].timestamp,
      location      |-> rows[i].location,
      sensor        |-> rows[i].sensor,
      location_norm |-> LowerStr(Strip(rows[i].location)),
      sensor_norm   |-> LowerStr(Strip(rows[i].sensor)),
      value         |-> rows[i].value]]

\* df["value"] = pd.to_numeric(..., errors="coerce"), then dropna(subset=["value"]).
ParseValues(rows) ==
  LET parsed == [i \in 1..Len(rows) |->
                   [rows[i] EXCEPT !.value = to_numeric(rows[i].value)]]
      Valid(r) == r.value # None
      kept == SelectSeq(parsed, Valid)
  IN  [i \in 1..Len(kept) |-> [kept[i] EXCEPT !.value = kept[i].value[1]]]

\* Whether the body of load_data passes its column check.
SchemaOk(file) == required \subseteq file.columns

\* The table the body of load_data returns for a source that passes the check.
load_data(file) == ParseValues(AddNormColumns(ParseTimestamps(file.rows)))

\* ------------------------------------------------------------------ cache key
norm(s) == IF s = None THEN None ELSE Some(LowerStr(Strip(s[1])))

_cache_key(location, sensor, start_date, end_date) ==
  <<norm(location), norm(sensor), norm(start_date), norm(end_date)>>

KeyOf(q) == _cache_key(q.location, q.sensor, q.start_date, q.end_date)

\* ------------------------------------------------------------------ query
\* Python truth of an Optional[str]: None and "" are false.
Truthy(s) == s # None /\ s[1] # <<>>

\* _parse_iso without the pd.isna check: an unparseable date comes back as
\* NaT, and no timestamp is >= NaT.
_parse_iso_nat(date_str) ==
  IF ~Truthy(date_str) THEN None
  ELSE IF to_datetime(date_str[1]) = None THEN Some(1000)
  ELSE to_datetime(date_str[1])

_parse_iso(date_str) == IF ~Truthy(date_str) THEN None ELSE to_datetime(date_str[1])

\* FilterLocation comparing the criterion in the case it was sent in.
FilterLocationCased(flt, location) ==
  LET Match(r) == r.location_norm = Strip(location[1])
  IN  IF Truthy(location) THEN SelectSeq(flt, Match) ELSE flt

FilterLocation(flt, location) ==
  LET Match(r) == r.location_norm = LowerStr(Strip(location[1]))
  IN  IF Truthy(location) THEN SelectSeq(flt, Match) ELSE flt

FilterSensor(flt, sensor) ==
  LET Match(r) == r.sensor_norm = LowerStr(Strip(sensor[1]))
  IN  IF Truthy(sensor) THEN SelectSeq(flt, Match) ELSE flt

\* FilterStart with an exclusive bound.
FilterStartExclusive(flt, start_ts) ==
  LET Match(r) == r.timestamp > start_ts[1]
  IN  IF start_ts # None THEN SelectSeq(flt, Match) ELSE flt

FilterStart(flt, start_ts) ==
  LET Match(r) == r.timestamp >= start_ts[1]
  IN  IF start_ts # None THEN SelectSeq(flt, Match) ELSE flt

FilterEnd(flt, end_ts) ==
  LET Match(r) == r.timestamp <= end_ts[1]
  IN  IF end_ts # None THEN SelectSeq(flt, Match) ELSE flt

\* Lines 99-114 of stats: the rows of df the request selects.
Filtered(df, q) ==
  FilterEnd(FilterStart(FilterSensor(FilterLocation(df, q.location), q.sensor),
                        _parse_iso(q.start_date)),
            _parse_iso(q.end_date))

\* vals.sum(): the values added one after the other, each sum rounded.
RECURSIVE FSumFrom(_, _)
FSumFrom(acc, vals) ==
  IF vals = <<>> THEN acc ELSE FSumFrom(FAdd(acc, Head(vals)), Tail(vals))

\* vals.mean(): the rounded sum divided by the count, rounded.
Mean(vals) == FDiv(FSumFrom(0, vals), Len(vals))

RECURSIVE MinFrom(_, _)
MinFrom(m, vals) ==
  IF vals = <<>> THEN m
  ELSE MinFrom(IF Head(vals) < m THEN Head(vals) ELSE m, Tail(vals))

RECURSIVE MaxFrom(_, _)
MaxFrom(m, vals) ==
  IF vals = <<>> THEN m
  ELSE MaxFrom(IF Head(vals) > m THEN Head(vals) ELSE m, Tail(vals))

\* StatsObj reporting zeros for an empty selection.
StatsObjZeros(flt) ==
  IF flt = <<>>
    THEN [count |-> 0, avg |-> Some(0), min |-> Some(0), max |-> Some(0)]
    ELSE LET vals == [i \in 1..Len(flt) |-> flt[i].value]
         IN  [count |-> Len(vals),
              avg   |-> Some(Mean(vals)),
              min   |-> Some(MinFrom(Head(vals), Tail(vals))),
              max   |-> Some(MaxFrom(Head(vals), Tail(vals)))]

\* Lines 117-127 of stats.
StatsObj(flt) ==
  IF flt = <<>>
    THEN [count |-> 0, avg |-> None, min |-> None, max |-> None]
    ELSE LET vals == [i \in 1..Len(flt) |-> flt[i].value]
         IN  [count |-> Len(vals),
              avg   |-> Some(Mean(vals)),
              min   |-> Some(MinFrom(Head(vals), Tail(vals))),
              max   |-> Some(MaxFrom(Head(vals), Tail(vals)))]

\* Lines 99-130 of stats: the payload a miss computes.
ComputePayload(df, q) == [stats |-> StatsObj(Filtered(df, q))]

\* ------------------------------------------------------------------ inputs
Threads == 1..NThreads

D1 == <<"2024-01-01">>
D1T00 == <<"2024-01-01", "T", "00:00:00", "Z">>
D1t00 == <<"2024-01-01", "t", "00:00:00", "z">>
D1T12 == <<"2024-01-01", "T", "12:00:00", "Z">>
D2 == <<"2024-01-02">>
D2T00 == <<"2024-01-02", "T", "00:00:00", "Z">>
D3T00 == <<"2024-01-03", "T", "00:00:00", "Z">>
Garbage == <<"n", "o">>

Row(ts, loc, sen, val) ==
  [timestamp |-> ts, location |-> loc, sensor |-> sen, value |-> val]

\* sensors.csv with rows of every kind: spellings of one location and one
\* sensor that differ in case and surrounding blanks, a blank location, a
\* timestamp that does not parse, values that are not numbers, and a decimal
\* literal (9) that is not itself a float.
CsvMixed ==
  [columns |-> required \cup {"unit"},
   rows |-> << Row(D1T00, <<"A">>, <<"t">>, <<"num", 12>>),
               Row(D1T12, <<" ", "a">>, <<"T", " ">>, <<"num", 12>>),
               Row(Garbage, <<"a">>, <<"t">>, <<"num", 40>>),
               Row(D2T00, <<"a">>, <<"t">>, <<"num", 12>>),
               Row(D2T00, <<"b">>, <<"h">>, <<"txt", 0>>),
               Row(D3T00, <<"b">>, <<"h">>, <<"num", 9>>),
               Row(D1T12, <<" ">>, <<"h">>, <<"num", 20>>) >>]

\* sensors.csv with a header and no rows.
CsvEmpty == [columns |-> required, rows |-> <<>>]

\* sensors.csv with one valid row.
CsvOne ==
  [columns |-> required,
   rows |-> << Row(D1T00, <<"a">>, <<"t">>, <<"num", 12>>) >>]

\* sensors.csv without the value column.
CsvNoValue ==
  [columns |-> {"timestamp", "location", "sensor"},
   rows |-> << [timestamp |-> D1T00, location |-> <<"a">>, sensor |-> <<"t">>],
               [timestamp |-> D2T00, location |-> <<"b">>, sensor |-> <<"h">>] >>]

Sources == {CsvMixed, CsvEmpty}

Locations == {None, Some(<<>>), Some(<<" ">>), Some(<<"a">>), Some(<<"A", " ">>)}

Sensors == {None, Some(<<"t">>), Some(<<" ", "T">>)}

StartDates == {None, Some(D1), Some(D1T00), Some(Garbage)}

EndDates == {None, Some(D2), Some(D1T12), Some(Garbage)}

\* Every request the sequential specification issues.
Queries ==
  [location : Locations, sensor : Sensors, start_date : StartDates, end_date : EndDates]

Q(loc, sen, sd, ed) ==
  [location |-> loc, sensor |-> sen, start_date |-> sd, end_date |-> ed]

\* The requests the concurrent specification issues.
Pool ==
  { Q(None, None, None, None),
    Q(Some(<<>>), None, None, None),
    Q(Some(<<" ">>), None, None, None),
    Q(Some(<<"a">>), None, None, None),
    Q(Some(<<"A", " ">>), None, None, None),
    Q(None, Some(<<"t">>), Some(D1), Some(D2)),
    Q(None, Some(<<"t">>), Some(D1T00), Some(D2)),
    Q(None, Some(<<"t">>), Some(D1t00), Some(D2)),
    Q(None, None, Some(Garbage), None) }

\* ------------------------------------------------------------------ state
VARIABLES
  file,      \* sensors.csv
  lru,       \* the lru_cache of load_data: None, or Some(table)
  loadRuns,  \* how many times the body of load_data has run to completion
  cache,     \* _cache: key -> payload
  lock,      \* _lock: 0 when free, else the thread that holds it
  pc,        \* each thread's place in stats
  req,       \* each thread's request parameters
  key,       \* each thread's local key
  df,        \* each thread's local df
  flt,       \* each thread's local flt, once it has filtered
  payload,   \* each thread's local payload
  computes,  \* how many times each thread ran lines 99-130 for its request
  began,     \* the time each thread's request started
  clock,     \* time: one tick per request start and per response
  started,   \* requests started so far
  log        \* the responses, in the order they were returned

vars ==
  <<file, lru, loadRuns, cache, lock, pc, req, key, df, flt, payload, computes,
    began, clock, started, log>>

NoReq == Q(None, None, None, None)

InitWith(sources) ==
  /\ file \in sources
  /\ lru = None
  /\ loadRuns = 0
  /\ cache = [k \in {} |-> None]
  /\ lock = 0
  /\ pc = [t \in Threads |-> "idle"]
  /\ req = [t \in Threads |-> NoReq]
  /\ key = [t \in Threads |-> None]
  /\ df = [t \in Threads |-> None]
  /\ flt = [t \in Threads |-> None]
  /\ payload = [t \in Threads |-> None]
  /\ computes = [t \in Threads |-> 0]
  /\ began = [t \in Threads |-> 0]
  /\ clock = 0
  /\ started = 0
  /\ log = <<>>

Init == InitWith(Sources)

\* A request enters stats: line 89 computes its key.
Enter(t, q) ==
  /\ pc[t] = "idle"
  /\ req' = [req EXCEPT ![t] = q]
  /\ key' = [key EXCEPT ![t] = KeyOf(q)]
  /\ pc' = [pc EXCEPT ![t] = "lock1"]
  /\ computes' = [computes EXCEPT ![t] = 0]
  /\ clock' = clock + 1
  /\ began' = [began EXCEPT ![t] = clock + 1]
  /\ started' = started + 1
  /\ UNCHANGED <<file, lru, loadRuns, cache, lock, df, flt, payload, log>>

\* A request arrives while others may be in flight.
Begin(t) ==
  /\ started < MaxRequests
  /\ \E q \in Pool : Enter(t, q)

\* A request arrives after every earlier one has been answered.
BeginSeq(t) ==
  /\ started < MaxSeqRequests
  /\ \A u \in Threads : pc[u] = "idle"
  /\ \E q \in Queries : Enter(t, q)

\* The response of thread t's request, as the log keeps it.
Response(t, status, body) ==
  [req |-> req[t], key |-> key[t], status |-> status, payload |-> body,
   flt |-> flt[t], began |-> began[t], ended |-> clock + 1,
   computes |-> computes[t]]

\* Thread t returns: its locals die.
Leave(t, status, body) ==
  /\ log' = Append(log, Response(t, status, body))
  /\ clock' = clock + 1
  /\ pc' = [pc EXCEPT ![t] = "idle"]
  /\ req' = [req EXCEPT ![t] = NoReq]
  /\ key' = [key EXCEPT ![t] = None]
  /\ df' = [df EXCEPT ![t] = None]
  /\ flt' = [flt EXCEPT ![t] = None]
  /\ payload' = [payload EXCEPT ![t] = None]
  /\ computes' = [computes EXCEPT ![t] = 0]
  /\ began' = [began EXCEPT ![t] = 0]

\* Line 90: with _lock.
AcquireLookup(t) ==
  /\ pc[t] = "lock1"
  /\ lock = 0
  /\ lock' = t
  /\ pc' = [pc EXCEPT ![t] = "lookup"]
  /\ UNCHANGED <<file, lru, loadRuns, cache, req, key, df, flt, payload, computes,
                 began, clock, started, log>>

\* CacheHit with the header of the miss path.
CacheHitMarkedMiss(t) ==
  /\ Leave(t, "MISS", cache[key[t]])
  /\ lock' = 0
  /\ UNCHANGED <<file, lru, loadRuns, cache, started>>

\* CacheHit taking the entry out of the map (_cache.pop(key)).
CacheHitPop(t) ==
  /\ Leave(t, "HIT", cache[key[t]])
  /\ lock' = 0
  /\ cache' = [k \in DOMAIN cache \ {key[t]} |-> cache[k]]
  /\ UNCHANGED <<file, lru, loadRuns, started>>

\* CacheHit returning without the end of the with block (the lock stays held).
CacheHitKeepsLock(t) ==
  /\ Leave(t, "HIT", cache[key[t]])
  /\ UNCHANGED <<file, lru, loadRuns, cache, lock, started>>

\* Lines 92-93: the key is in _cache; return the stored payload, leaving the
\* with block.
CacheHit(t) ==
  /\ Leave(t, "HIT", cache[key[t]])
  /\ lock' = 0
  /\ UNCHANGED <<file, lru, loadRuns, cache, started>>

\* CacheMiss with line 96 inside the with block (the lock stays held).
CacheMissKeepsLock(t) ==
  /\ pc' = [pc EXCEPT ![t] = "load"]
  /\ UNCHANGED <<file, lru, loadRuns, cache, lock, req, key, df, flt, payload,
                 computes, began, clock, started, log>>

\* The key is not in _cache: leave the with block and go on to line 96.
CacheMiss(t) ==
  /\ lock' = 0
  /\ pc' = [pc EXCEPT ![t] = "load"]
  /\ UNCHANGED <<file, lru, loadRuns, cache, req, key, df, flt, payload, computes,
                 began, clock, started, log>>

\* InCache that never finds a key.
InCacheNever(k) == FALSE

\* Line 91: if key in _cache.
InCache(k) == k \in DOMAIN cache

\* Lines 91-93.
Lookup(t) ==
  /\ pc[t] = "lookup"
  /\ IF InCache(key[t]) THEN CacheHit(t) ELSE CacheMiss(t)

\* Line 96: the call of load_data; lru_cache answers it when it holds a result.
LoadCall(t) ==
  /\ pc[t] = "load"
  /\ IF lru # None
       THEN /\ df' = [df EXCEPT ![t] = lru]
            /\ pc' = [pc EXCEPT ![t] = "filter"]
       ELSE /\ pc' = [pc EXCEPT ![t] = "loading"]
            /\ UNCHANGED df
  /\ UNCHANGED <<file, lru, loadRuns, cache, lock, req, key, flt, payload,
                 computes, began, clock, started, log>>

\* LoadBody with the missing-column error swallowed: an empty table is cached.
LoadBodySwallow(t) ==
  /\ pc[t] = "loading"
  /\ lru' = Some(IF SchemaOk(file) THEN load_data(file) ELSE <<>>)
  /\ loadRuns' = loadRuns + 1
  /\ df' = [df EXCEPT ![t] = lru']
  /\ pc' = [pc EXCEPT ![t] = "filter"]
  /\ UNCHANGED <<file, cache, lock, req, key, flt, payload, computes, began,
                 clock, started, log>>

\* Lines 26-43: the body of load_data, run by a caller lru_cache could not
\* answer; lru_cache keeps the result when the body returns.
LoadBody(t) ==
  /\ pc[t] = "loading"
  /\ IF SchemaOk(file)
       THEN /\ lru' = Some(load_data(file))
            /\ loadRuns' = loadRuns + 1
            /\ df' = [df EXCEPT ![t] = Some(load_data(file))]
            /\ pc' = [pc EXCEPT ![t] = "filter"]
            /\ UNCHANGED <<req, key, flt, payload, computes, began, clock, log>>
       ELSE /\ Leave(t, "ERROR", None)
            /\ UNCHANGED <<lru, loadRuns>>
  /\ UNCHANGED <<file, cache, lock, started>>

\* Compute filtering the shared table in place (the memoized frame loses the
\* rows the query drops).
ComputeInPlace(t) ==
  /\ pc[t] = "filter"
  /\ flt' = [flt EXCEPT ![t] = Some(Filtered(df[t][1], req[t]))]
  /\ lru' = flt'[t]
  /\ payload' = [payload EXCEPT ![t] = Some(ComputePayload(df[t][1], req[t]))]
  /\ computes' = [computes EXCEPT ![t] = computes[t] + 1]
  /\ pc' = [pc EXCEPT ![t] = "lock2"]
  /\ UNCHANGED <<file, loadRuns, cache, lock, req, key, df, began, clock,
                 started, log>>

\* Lines 99-130: filter, aggregate, build the payload.
Compute(t) ==
  /\ pc[t] = "filter"
  /\ flt' = [flt EXCEPT ![t] = Some(Filtered(df[t][1], req[t]))]
  /\ payload' = [payload EXCEPT ![t] = Some(ComputePayload(df[t][1], req[t]))]
  /\ computes' = [computes EXCEPT ![t] = computes[t] + 1]
  /\ pc' = [pc EXCEPT ![t] = "lock2"]
  /\ UNCHANGED <<file, lru, loadRuns, cache, lock, req, key, df, began, clock,
                 started, log>>

\* Line 134: with _lock.
AcquireStore(t) ==
  /\ pc[t] = "lock2"
  /\ lock = 0
  /\ lock' = t
  /\ pc' = [pc EXCEPT ![t] = "store"]
  /\ UNCHANGED <<file, lru, loadRuns, cache, req, key, df, flt, payload, computes,
                 began, clock, started, log>>

\* Put rebinding the map to the new entry alone (_cache = {key: payload}).
PutAlone(c, k, v) == [x \in {k} |-> v]

\* _cache[key] = payload
Put(c, k, v) == [x \in DOMAIN c \cup {k} |-> IF x = k THEN v ELSE c[x]]

\* Line 135, and the end of the with block.
Store(t) ==
  /\ pc[t] = "store"
  /\ cache' = Put(cache, key[t], payload[t][1])
  /\ lock' = 0
  /\ pc' = [pc EXCEPT ![t] = "ret"]
  /\ UNCHANGED <<file, lru, loadRuns, req, key, df, flt, payload, computes, began,
                 clock, started, log>>

\* Line 138: return the computed payload.
Return(t) ==
  /\ pc[t] = "ret"
  /\ Leave(t, "MISS", payload[t][1])
  /\ UNCHANGED <<file, lru, loadRuns, cache, lock, started>>

\* One step of the handler after the request has entered.
Step(t) ==
  \/ AcquireLookup(t)
  \/ Lookup(t)
  \/ LoadCall(t)
  \/ LoadBody(t)
  \/ Compute(t)
  \/ AcquireStore(t)
  \/ Store(t)
  \/ Return(t)

\* The worker pool serves requests in parallel.
Next == \E t \in Threads : Begin(t) \/ Step(t)

Spec == Init /\ [][Next]_vars

\* One worker serves one request after the other.
NextSeq == BeginSeq(1) \/ Step(1)

SeqSpec == Init /\ [][NextSeq]_vars

\* The service started on a source that lacks a required column.  The steps
\* after line 96 are left out of the next-state relation: C11_NoServiceWithoutSchema
\* shows that no thread ever stands at one of them.
InitNoSchema == InitWith({CsvNoValue})

NextNoSchema ==
  \E t \in Threads :
    \/ Begin(t)
    \/ AcquireLookup(t)
    \/ Lookup(t)
    \/ LoadCall(t)
    \/ LoadBody(t)

NoSchemaSpec == InitNoSchema /\ [][NextNoSchema]_vars

\* Fair scheduling: a thread that can take its next step of the handler takes
\* it at some time.  Requests come from a pool of two, against a source
\* that loads (one row) and one that does not.
PoolFair ==
  { Q(None, None, None, None),
    Q(Some(<<"a">>), None, None, None) }

BeginFair(t) ==
  /\ started < MaxRequests
  /\ \E q \in PoolFair : Enter(t, q)

InitFair == InitWith({CsvOne, CsvNoValue})

NextFair == \E t \in Threads : BeginFair(t) \/ Step(t)

FairSpec ==
  InitFair /\ [][NextFair]_vars /\ \A t \in Threads : WF_vars(Step(t))

\* ------------------------------------------------------------------ history
LogIdx == 1..Len(log)

Active == {t \in Threads : pc[t] # "idle"}

\* No two requests so far were in flight at the same time: each finished
\* before the next started.
NonOverlapping ==
  /\ Cardinality(Active) <= 1
  /\ \A i, j \in LogIdx : i < j => log[i].ended <= log[j].began
  /\ \A t \in Active : \A i \in LogIdx : log[i].ended <= began[t]

\* The table load_data has given out.
Table == lru[1]

\* ------------------------------------------------------------------ claims
\* C1: in a run of non-overlapping requests, the first response for a cache
\* key is a MISS, every later response for that key is a HIT, and all of them
\* carry the payload of the first.
C1_MissThenHit ==
  NonOverlapping =>
    \A j \in LogIdx :
      LET earlier == {i \in 1..(j - 1) : log[i].key = log[j].key}
      IN  IF earlier = {}
            THEN log[j].status = "MISS"
            ELSE /\ log[j].status = "HIT"
                 /\ \A i \in earlier : log[i].payload = log[j].payload

\* Three requests one after the other, spelled in two ways, with one key.
C1_Witness ==
  /\ NonOverlapping
  /\ Len(log) = 3
  /\ log[1].key = log[2].key /\ log[2].key = log[3].key
  /\ log[1].req # log[2].req
  /\ log[1].status = "MISS" /\ log[2].status = "HIT" /\ log[3].status = "HIT"

\* The step of thread t that finds its key in the cache.
HitStep(t) == pc[t] = "lookup" /\ InCache(key[t]) /\ pc'[t] # "lookup"

\* C2: a request that finds its key in the cache returns the payload stored
\* under the key, marked HIT, having run neither the compute step nor
\* load_data, and leaves the cache map as it was.
C2_HitFrame ==
  [][\A t \in Threads :
       HitStep(t) =>
         /\ log' = Append(log, log'[Len(log')])
         /\ log'[Len(log')].status = "HIT"
         /\ log'[Len(log')].payload = cache[key[t]]
         /\ log'[Len(log')].computes = 0
         /\ cache' = cache
         /\ lru' = lru
         /\ loadRuns' = loadRuns]_vars

\* A HIT has been returned while the cache holds more than one entry.
C2_Witness ==
  /\ \E i \in LogIdx : log[i].status = "HIT"
  /\ Cardinality(DOMAIN cache) >= 2

\* C3: a request that misses runs the compute step exactly once and stores
\* its payload under its key; when it returns that payload as a MISS, the
\* cache maps its key to the payload it returns.
C3_MissStoresWhatItReturns ==
  \A t \in Threads :
    pc[t] = "ret" =>
      /\ computes[t] = 1
      /\ InCache(key[t])
      /\ cache[key[t]] = payload[t][1]

\* The step of thread t that writes the cache.
StoreStep(t) == pc[t] = "store" /\ pc'[t] = "ret"

\* C4, as claimed: once a key has an entry, no request removes the entry or
\* writes the key again.
C4_InsertedOnce ==
  [][/\ DOMAIN cache \subseteq DOMAIN cache'
     /\ \A t \in Threads : StoreStep(t) => ~InCache(key[t])]_vars

\* C4, amended: no request removes an entry, and while requests have not
\* overlapped no request writes a key that has an entry.
C4_NeverRemoved_InsertedOnceInSequence ==
  [][/\ DOMAIN cache \subseteq DOMAIN cache'
     /\ NonOverlapping =>
          /\ \A t \in Threads : StoreStep(t) => ~InCache(key[t])
          /\ \A k \in DOMAIN cache : cache'[k] = cache[k]]_vars

\* Two keys are stored and a later request for the first was served from it.
C4_Witness ==
  /\ NonOverlapping
  /\ Len(log) = 3
  /\ log[1].status = "MISS" /\ log[2].status = "MISS" /\ log[3].status = "HIT"
  /\ log[3].key = log[1].key
  /\ cache[log[1].key] = log[1].payload

\* The requests, answered or in flight, that have run the compute step for k.
ComputedLogged(k) == {i \in LogIdx : log[i].key = k /\ log[i].computes > 0}
ComputedActive(k) == {t \in Threads : key[t] = k /\ computes[t] > 0}

KeysSeen == {log[i].key : i \in LogIdx} \cup {key[t] : t \in Active}

\* C5, as claimed: the compute step is performed at most once per cache key.
C5_ComputedOncePerKey ==
  \A k \in KeysSeen :
    Cardinality(ComputedLogged(k)) + Cardinality(ComputedActive(k)) <= 1

\* C5, amended: two requests that both ran the compute step for one key were
\* in flight at the same time; a request that starts after another for its
\* key has returned does not compute.
C5_ComputedTwiceOnlyIfOverlapping ==
  \A k \in KeysSeen :
    /\ \A i, j \in ComputedLogged(k) : i < j => log[j].began < log[i].ended
    /\ \A i \in ComputedLogged(k) : \A t \in ComputedActive(k) :
         began[t] < log[i].ended
    /\ \A i \in LogIdx : log[i].computes <= 1
    /\ \A t \in Threads : computes[t] <= 1

\* Two overlapping requests computed for one key, and a third, started after
\* both had returned, was served without computing.
C5_Witness ==
  /\ Len(log) = 3
  /\ log[1].key = log[2].key /\ log[2].key = log[3].key
  /\ log[1].computes = 1 /\ log[2].computes = 1 /\ log[3].computes = 0
  /\ log[2].began < log[1].ended
  /\ log[2].ended <= log[3].began

\* Two spellings of one UTC instant.
SpellingsOfOneInstant(a, b) ==
  /\ a # b
  /\ Truthy(a) /\ Truthy(b)
  /\ to_datetime(a[1]) # None
  /\ to_datetime(a[1]) = to_datetime(b[1])

\* Requests equal but for the spelling of start_date, or of end_date.
SameButDateSpelling(p, q) ==
  /\ p.location = q.location
  /\ p.sensor = q.sensor
  /\ \/ SpellingsOfOneInstant(p.start_date, q.start_date) /\ p.end_date = q.end_date
     \/ SpellingsOfOneInstant(p.end_date, q.end_date) /\ p.start_date = q.start_date

\* C6: two requests whose start_date (or end_date) are spellings of one UTC
\* instant, all else equal, have one cache key, so the one issued after the
\* other has completed is a HIT.
C6_SameInstantSameKey ==
  \A i, j \in LogIdx :
    (i < j /\ SameButDateSpelling(log[i].req, log[j].req)) =>
      /\ log[i].key = log[j].key
      /\ log[j].status = "HIT"

\* Two strings that differ only in letter case and in leading and trailing
\* blanks.
SameButCaseAndBlanks(a, b) ==
  /\ a # None /\ b # None
  /\ LowerStr(Strip(a[1])) = LowerStr(Strip(b[1]))

\* C7: a request whose location (or sensor) differs from that of a computed
\* request only in letter case and surrounding blanks, all else equal, has the
\* same cache key and the same stats.
C7_CaseAndBlanksInsensitive ==
  \A i \in LogIdx :
    log[i].status = "MISS" =>
      /\ \A loc \in Locations :
           SameButCaseAndBlanks(log[i].req.location, loc) =>
             LET q == [log[i].req EXCEPT !.location = loc]
             IN  /\ KeyOf(q) = log[i].key
                 /\ ComputePayload(Table, q) = log[i].payload
      /\ \A sen \in Sensors :
           SameButCaseAndBlanks(log[i].req.sensor, sen) =>
             LET q == [log[i].req EXCEPT !.sensor = sen]
             IN  /\ KeyOf(q) = log[i].key
                 /\ ComputePayload(Table, q) = log[i].payload

\* A criterion that is given: a string that is not empty.
Present(s) == s # None /\ s[1] # <<>>

\* The instant a date criterion bounds the window with, if it parses.
BoundOf(d) == IF Present(d) THEN to_datetime(d[1]) ELSE None

\* Reading r satisfies every criterion of q that is present.
Satisfies(r, q) ==
  /\ Present(q.location) => r.location_norm = LowerStr(Strip(q.location[1]))
  /\ Present(q.sensor) => r.sensor_norm = LowerStr(Strip(q.sensor[1]))
  /\ BoundOf(q.start_date) # None => BoundOf(q.start_date)[1] <= r.timestamp
  /\ BoundOf(q.end_date) # None => r.timestamp <= BoundOf(q.end_date)[1]

\* The readings of the table that satisfy q, in table order.
Matching(q) ==
  LET Test(r) == Satisfies(r, q)
  IN  SelectSeq(Table, Test)

\* C8: the readings a miss aggregates are exactly the readings of the table
\* that satisfy every present criterion: equal normalized location, equal
\* normalized sensor, start <= timestamp <= end with both bounds included.
C8_AggregatesExactlyTheMatches ==
  \A i \in LogIdx :
    log[i].status = "MISS" =>
      /\ log[i].flt = Some(Matching(log[i].req))
      /\ log[i].payload.stats.count = Len(Matching(log[i].req))

\* A miss with all four criteria present counted a reading stamped exactly
\* start and a reading stamped exactly end, and left readings out.
C8_Witness ==
  \E i \in LogIdx :
    /\ log[i].status = "MISS"
    /\ Present(log[i].req.location) /\ Present(log[i].req.sensor)
    /\ BoundOf(log[i].req.start_date) # None
    /\ BoundOf(log[i].req.end_date) # None
    /\ \E m, n \in 1..Len(log[i].flt[1]) :
         /\ log[i].flt[1][m].timestamp = BoundOf(log[i].req.start_date)[1]
         /\ log[i].flt[1][n].timestamp = BoundOf(log[i].req.end_date)[1]
    /\ Len(log[i].flt[1]) < Len(Table)

\* The request whose computation a response carries: the first one answered
\* for its key.
SourceOf(i) == log[CHOOSE j \in LogIdx : log[j].key = log[i].key /\
                 \A k \in LogIdx : log[k].key = log[i].key => j <= k].req

MatchingValues(i) ==
  LET m == Matching(SourceOf(i)) IN [n \in 1..Len(m) |-> m[n].value]

Range(f) == {f[x] : x \in DOMAIN f}

\* What C9 says of a result s over the matching values vals, but for the
\* place of avg.
CountAndExtrema(s, vals) ==
  /\ s.count = Len(vals)
  /\ s.count = 0 <=> (s.avg = None /\ s.min = None /\ s.max = None)
  /\ s.count > 0 =>
       /\ s.avg # None /\ s.min # None /\ s.max # None
       /\ s.min[1] \in Range(vals) /\ \A v \in Range(vals) : s.min[1] <= v
       /\ s.max[1] \in Range(vals) /\ \A v \in Range(vals) : v <= s.max[1]

Unparseable(d) == Present(d) /\ to_datetime(d[1]) = None

\* Request p with its unparseable start_date, or end_date, left out is q.
SameWithoutBadDate(p, q) ==
  \/ Unparseable(p.start_date) /\ q = [p EXCEPT !.start_date = None]
  \/ Unparseable(p.end_date) /\ q = [p EXCEPT !.end_date = None]

C11_NoServiceWithoutSchema ==
  /\ \A i \in LogIdx : log[i].status = "ERROR" /\ log[i].payload = None
  /\ \A t \in Threads : pc[t] \in {"idle", "lock1", "lookup", "load", "loading"}
  /\ DOMAIN cache = {}
  /\ lru = None /\ loadRuns = 0

\* Three requests, two of them for one key, have all failed.
C11_Witness ==
  /\ Len(log) = 3
  /\ log[1].key = log[3].key
  /\ log[1].key # log[2].key
  /\ \A i \in LogIdx : log[i].status = "ERROR"

\* C12: the body of load_data runs to completion at most once per process,
\* whatever the interleaving of the first requests, and every request works
\* on the table that run built.
C12_LoadedOnce ==
  /\ loadRuns <= 1
  /\ \A t \in Threads : df[t] # None => df[t] = lru

\* The source rows whose timestamp parses and whose value is numeric.
KeptSource ==
  {i \in 1..Len(file.rows) :
     /\ to_datetime(file.rows[i].timestamp) # None
     /\ to_numeric(file.rows[i].value) # None}

\* The members of a set of row numbers in ingestion order.
InOrder(S) ==
  [k \in 1..Cardinality(S) |->
     CHOOSE i \in S : Cardinality({j \in S : j <= i}) = k]

\* C13: after a successful load the table holds exactly the source rows whose
\* timestamp parses and whose value is numeric, in ingestion order, each with
\* its parsed UTC instant and its numeric value, and every reading a query
\* aggregates is a reading of that table.
C13_TableIsTheValidRows ==
  lru # None =>
    LET kept == InOrder(KeptSource)
        rows == Range(Table)
    IN  /\ Len(Table) = Len(kept)
        /\ \A k \in 1..Len(Table) :
             LET src == file.rows[kept[k]]
             IN  /\ Table[k].timestamp = to_datetime(src.timestamp)[1]
                 /\ Table[k].value = to_numeric(src.value)[1]
                 /\ Table[k].location = src.location
                 /\ Table[k].sensor = src.sensor
                 /\ Table[k].timestamp \in Nat
                 /\ IsFloat(Table[k].value)
        /\ \A i \in LogIdx :
             log[i].status = "MISS" =>
               /\ \A n \in 1..Len(log[i].flt[1]) : log[i].flt[1][n] \in rows
               /\ log[i].payload.stats.count <= Len(kept)

\* Rows of both kinds were dropped, and a query without criteria has counted
\* every reading that is left.
C13_Witness ==
  /\ lru # None
  /\ \E i \in 1..Len(file.rows) : to_datetime(file.rows[i].timestamp) = None
  /\ \E i \in 1..Len(file.rows) : to_numeric(file.rows[i].value) = None
  /\ \E i \in LogIdx :
       /\ log[i].status = "MISS"
       /\ log[i].payload.stats.count = Cardinality(KeptSource)
       /\ Cardinality(KeptSource) > 0

\* Every location and sensor criterion of q that is present is non-empty after
\* trimming.
NonBlankFields(q) ==
  /\ q.location # None => Strip(q.location[1]) # <<>>
  /\ q.sensor # None => Strip(q.sensor[1]) # <<>>

\* The requests answered so far and the ones in flight.
AllRequests == {log[i].req : i \in LogIdx} \cup {req[t] : t \in Active}

Inside(t) == pc[t] \in {"lookup", "store"}

\* C15: a request holds the cache lock exactly while it is inside the lookup
\* block or the insert block, so never while it loads the table, filters or
\* aggregates; at most one request is inside a block at a time; the cache map
\* is read and written only by the request that holds the lock; and the lock
\* is free for a lookup whenever the other requests are loading or computing.
C15_LockOnlyAroundTheMap ==
  /\ [](\A t \in Threads : lock = t <=> Inside(t))
  /\ [](Cardinality({t \in Threads : Inside(t)}) <= 1)
  /\ []((\A t \in Threads : pc[t] \in {"idle", "lock1", "load", "loading",
                                        "filter", "lock2", "ret"}) => lock = 0)
  /\ [][cache' # cache => (lock # 0 /\ pc[lock] = "store" /\ lock' = 0)]_vars
  /\ [][(\E i \in DOMAIN log' : i > Len(log) /\ log'[i].status = "HIT")
          => (lock # 0 /\ pc[lock] = "lookup")]_vars

\* A request hit and completed while another request, which had called
\* load_data before any table was memoized, is still running its body.
C15_Witness ==
  /\ lru # None
  /\ Len(log) = 2
  /\ log[2].status = "HIT"
  /\ \E u \in Threads : pc[u] = "loading" /\ began[u] < log[2].began

\* C16: the cache key determines the result, for any optional strings: two
\* requests with one key compute the same stats, so every HIT response is
\* what the requesting query's own criteria give against the table.
C16_HitIsOwnResult ==
  /\ \A p, q \in Queries :
       (lru # None /\ KeyOf(p) = KeyOf(q)) =>
         ComputePayload(Table, p) = ComputePayload(Table, q)
  /\ \A i \in LogIdx :
       log[i].status = "HIT" => log[i].payload = ComputePayload(Table, log[i].req)

\* C17: under fair scheduling every request that has entered the handler
\* returns (HIT, MISS or the propagated load error), so none waits for the
\* lock forever: each thread is idle again and again, the lock is free again
\* and again, and a thread that is not inside a with block, whichever way it
\* left one, does not hold the lock.
C17_EveryRequestReturns ==
  /\ \A t \in Threads : []<>(pc[t] = "idle")
  /\ []<>(lock = 0)
  /\ [](\A t \in Threads : pc[t] \notin {"lookup", "store"} => lock # t)

\* Every request of the run has returned, by a hit and by misses that
\* overlapped, and the lock is free.
C17_Witness ==
  /\ Len(log) = MaxRequests
  /\ \A t \in Threads : pc[t] = "idle"
  /\ lock = 0
  /\ \E i, j \in LogIdx : log[i].status = "HIT" /\ log[j].status = "MISS"
  /\ \E i, j \in LogIdx : i < j /\ log[j].began < log[i].ended

\* C18: no request writes to the shared table: once load_data has returned
\* one, no step of any request changes the memoized table or the table a
\* request in flight works on, and every request in flight works on a table
\* equal to the memoized one.
C18_TableNeverWritten ==
  /\ [][lru # None => lru' = lru]_vars
  /\ [][\A t \in Threads : (df[t] # None /\ df'[t] # None) => df'[t] = df[t]]_vars
  /\ [](\A t \in Threads : df[t] # None => df[t] = lru)

\* Three queries have filtered the table down to different readings, and a
\* request in flight still has all of it.
C18_Witness ==
  /\ lru # None
  /\ Len(log) = 2
  /\ log[1].status = "MISS" /\ log[2].status = "MISS"
  /\ Len(log[1].flt[1]) < Len(Table)
  /\ Len(log[2].flt[1]) < Len(log[1].flt[1])
  /\ \E t \in Threads : df[t] = lru /\ pc[t] = "lock2" /\ Len(flt[t][1]) > 0

====
